---------------------------- MODULE Spec2Model ----------------------------
(***************************************************************************)
(* A model of src/sheduler.py: the four scheduling functions (fcfs,        *)
(* sjf_non_preemptive, round_robin, priority_non_preemptive), the helpers  *)
(* they share (reset_processes, compute_metrics) and a caller that builds  *)
(* a list of Process records and calls the functions on it, again and      *)
(* again.  One action is one pass through a function's loop body.          *)
(*                                                                         *)
(* An Optional[int] field is a sequence of length at most one: None is     *)
(* << >> and the integer v is << v >>.  A str is the sequence of its       *)
(* character codes, so that Python's lexicographic order on pids is        *)
(* computed and not assumed.  A reference to a Process object is its       *)
(* index in the caller's list `processes`.                                 *)
(***************************************************************************)
EXTENDS Integers, Sequences, FiniteSets, TLC

\* ------------------------------------------------------------------ bounds

MaxProcs == 3
MaxArrival == 2
MaxBurst == 3
MaxPriority == 1
MaxQuantum == 2
MinQuantum == 0 - 1

\* ------------------------------------------------------------ values

None == << >>
Some(v) == << v >>
Val(o) == o[1]

\* "Idle", the label of an idle block (lines 179, 212, 258, 317).
Idle == << 73, 100, 108, 101 >>

\* The pid "P<k>" as the caller types it (line 346).
PidOf(k) == IF k < 10 THEN << 80, 48 + k >> ELSE << 80, 48 + (k \div 10), 48 + (k % 10) >>

\* The pids the caller chooses from: "P1", "P2", ... and "P10", which sorts
\* between "P1" and "P2" in Python's order on str.
PidPool == { PidOf(k) : k \in (1 .. (MaxProcs - 1)) \cup {10} }

\* Python's < on str: lexicographic on the code points, a proper prefix first.
RECURSIVE StrLess(_, _)
StrLess(a, b) ==
    IF b = << >> THEN FALSE
    ELSE IF a = << >> THEN TRUE
    ELSE IF Head(a) # Head(b) THEN Head(a) < Head(b)
    ELSE StrLess(Tail(a), Tail(b))

\* Python's < on the 3-tuples (int, int, str) used as sort and min keys.
KeyLess(x, y) ==
    \/ x[1] < y[1]
    \/ x[1] = y[1] /\ x[2] < y[2]
    \/ x[1] = y[1] /\ x[2] = y[2] /\ StrLess(x[3], y[3])

Min2(a, b) == IF a <= b THEN a ELSE b

\* ------------------------------------------------------------ data model

\* Process(pid=..., arrival_time=..., burst_time=..., priority=...): the
\* runtime fields take their dataclass defaults.
Process(pid, arrival, burst, priority) ==
    [ pid |-> pid, arrival_time |-> arrival, burst_time |-> burst,
      priority |-> priority,
      start_time |-> None, completion_time |-> None, waiting_time |-> None,
      turnaround_time |-> None, remaining_time |-> None ]

\* Mutant of reset_processes: start_time is not cleared.
reset_processes_keeps_start(ps) ==
    [ k \in 1 .. Len(ps) |->
        [ ps[k] EXCEPT !.completion_time = None,
                       !.waiting_time = None,
                       !.turnaround_time = None,
                       !.remaining_time = Some(ps[k].burst_time) ] ]

reset_processes(ps) ==
    [ k \in 1 .. Len(ps) |->
        [ ps[k] EXCEPT !.start_time = None,
                       !.completion_time = None,
                       !.waiting_time = None,
                       !.turnaround_time = None,
                       !.remaining_time = Some(ps[k].burst_time) ] ]

\* Mutant of compute_metrics: the waiting time is taken from the completion
\* time, not from the turnaround time.
compute_metrics_from_completion(ps) ==
    [ k \in 1 .. Len(ps) |->
        IF ps[k].completion_time = None THEN ps[k]
        ELSE LET tat == Val(ps[k].completion_time) - ps[k].arrival_time
             IN [ ps[k] EXCEPT !.turnaround_time = Some(tat),
                               !.waiting_time =
                                   Some(Val(ps[k].completion_time) - ps[k].burst_time) ] ]

\* compute_metrics' effect on the records; a record without completion_time
\* is skipped.
compute_metrics(ps) ==
    [ k \in 1 .. Len(ps) |->
        IF ps[k].completion_time = None THEN ps[k]
        ELSE LET tat == Val(ps[k].completion_time) - ps[k].arrival_time
             IN [ ps[k] EXCEPT !.turnaround_time = Some(tat),
                               !.waiting_time = Some(tat - ps[k].burst_time) ] ]

\* total_waiting / n: Python's true division of two ints, kept exact as the
\* fraction in lowest terms, so that equal floats are equal values.
ZeroDivisionError == << >>
TrueDiv(a, n) ==
    IF n = 0 THEN ZeroDivisionError
    ELSE LET g == CHOOSE d \in 1 .. n :
                    /\ a % d = 0 /\ n % d = 0
                    /\ \A e \in 1 .. n : (a % e = 0 /\ n % e = 0) => e <= d
         IN << a \div g, n \div g >>

\* The float 0.0
ZeroFloat == << 0, 1 >>

\* total_waiting, total_turnaround: the field `f` of the records, after the
\* loop, added up over those with completion_time set.
RECURSIVE total(_, _)
total(ps, f) ==
    IF ps = << >> THEN 0
    ELSE (IF Head(ps).completion_time = None THEN 0 ELSE Val(Head(ps)[f]))
         + total(Tail(ps), f)

\* Mutant of compute_metrics_averages: the mean over the completed records.
compute_metrics_averages_of_completed(ps) ==
    LET n == Cardinality({ k \in 1 .. Len(ps) : ps[k].completion_time # None })
        done == compute_metrics(ps)
    IN [ avg_waiting_time |->
             IF n > 0 THEN TrueDiv(total(done, "waiting_time"), n) ELSE ZeroFloat,
         avg_turnaround_time |->
             IF n > 0 THEN TrueDiv(total(done, "turnaround_time"), n) ELSE ZeroFloat ]

\* The dict compute_metrics returns.
compute_metrics_averages(ps) ==
    LET n == Len(ps)
        done == compute_metrics(ps)
    IN [ avg_waiting_time |->
             IF n > 0 THEN TrueDiv(total(done, "waiting_time"), n) ELSE ZeroFloat,
         avg_turnaround_time |->
             IF n > 0 THEN TrueDiv(total(done, "turnaround_time"), n) ELSE ZeroFloat ]

\* ------------------------------------------------------------------ state

VARIABLES
    processes,    \* the caller's list of Process records
    alg,          \* the function called last ("none" before the first call)
    pc,           \* "main": no call made yet; "loop": inside the function's
                  \* loop; "returned"; "raised"; in main, "printed" after
                  \* print_gantt_chart and "reported" after compute_metrics
    quantum,      \* round_robin's argument
    schedule,     \* the function's list of Gantt blocks; its return value
    procs,        \* fcfs, round_robin: the sorted list (of references)
    time,         \* the function's clock
    cursor,       \* fcfs: how many elements of procs the for loop has taken
    completed,    \* sjf, priority: the count of completed processes
    i,            \* round_robin: the admission index into procs
    ready_queue,  \* round_robin: the FIFO queue (of references)
    replay,       \* history: the records given to the last call had already
                  \* been through a call (some runtime field was set)
    chart,        \* main: the lines print_gantt_chart has printed
    metrics       \* main: the dict compute_metrics returned to it, if any

vars == << processes, alg, pc, quantum, schedule, procs, time, cursor,
           completed, i, ready_queue, replay, chart, metrics >>

\* The state as one value, so that a function's steps are operators on it.
State ==
    [ processes |-> processes, alg |-> alg, pc |-> pc, quantum |-> quantum,
      schedule |-> schedule, procs |-> procs, time |-> time,
      cursor |-> cursor, completed |-> completed, i |-> i,
      ready_queue |-> ready_queue, replay |-> replay ]

Apply(s) ==
    /\ processes' = s.processes
    /\ alg' = s.alg
    /\ pc' = s.pc
    /\ quantum' = s.quantum
    /\ schedule' = s.schedule
    /\ procs' = s.procs
    /\ time' = s.time
    /\ cursor' = s.cursor
    /\ completed' = s.completed
    /\ i' = s.i
    /\ ready_queue' = s.ready_queue
    /\ replay' = s.replay
    /\ UNCHANGED << chart, metrics >>

\* The records as the caller created them: the static fields alone.
Fresh(ps) ==
    [ k \in 1 .. Len(ps) |->
        Process(ps[k].pid, ps[k].arrival_time, ps[k].burst_time, ps[k].priority) ]

\* A function is entered: its name, an empty schedule, its locals unset.
Enter(s, name, ps) ==
    [ processes |-> ps, alg |-> name, pc |-> "loop", quantum |-> 0,
      schedule |-> << >>, procs |-> << >>, time |-> 0, cursor |-> 0,
      completed |-> 0, i |-> 0, ready_queue |-> << >>,
      replay |-> (s.processes # Fresh(s.processes)) ]

\* compute_metrics(processes); return schedule: the locals are gone.
Return(s) ==
    [ s EXCEPT !.processes = compute_metrics(s.processes), !.pc = "returned",
               !.procs = << >>, !.time = 0, !.cursor = 0, !.completed = 0,
               !.i = 0, !.ready_queue = << >> ]

\* sorted(processes, key=...): the stable sort, as the list of references.
\* keys[a] is the key of processes[a], a 3-tuple (int, int, str).
Sorted(keys) ==
    LET n == Len(keys)
        Before(a, b) == KeyLess(keys[a], keys[b]) \/ (~KeyLess(keys[b], keys[a]) /\ a < b)
        Rank(a) == 1 + Cardinality({ b \in 1 .. n : Before(b, a) })
    IN [ pos \in 1 .. n |-> CHOOSE a \in 1 .. n : Rank(a) = pos ]

Init ==
    /\ processes = << >>
    /\ alg = "none"
    /\ pc = "main"
    /\ quantum = 0
    /\ schedule = << >>
    /\ procs = << >>
    /\ time = 0
    /\ cursor = 0
    /\ completed = 0
    /\ i = 0
    /\ ready_queue = << >>
    /\ replay = FALSE
    /\ chart = << >>
    /\ metrics = None

\* input_processes: processes.append(Process(...)), with a pid not yet used,
\* a non-negative arrival time and a positive burst time.
AddProcess ==
    /\ pc = "main"
    /\ Len(processes) < MaxProcs
    /\ \E pid \in PidPool \ { processes[k].pid : k \in 1 .. Len(processes) },
          arrival \in 0 .. MaxArrival,
          burst \in 1 .. MaxBurst,
          priority \in 0 .. MaxPriority :
            processes' = Append(processes, Process(pid, arrival, burst, priority))
    /\ UNCHANGED << alg, pc, quantum, schedule, procs, time, cursor,
                    completed, i, ready_queue, replay, chart, metrics >>

\* ------------------------------------------------------------------- fcfs

\* Mutant of fcfs_key: the pid is left out of the key.
fcfs_key_arrival_only(p) == << p.arrival_time, 0, << >> >>

\* key=lambda p: (p.arrival_time, p.pid), as a 3-tuple
fcfs_key(p) == << p.arrival_time, 0, p.pid >>

fcfs_enter(s) ==
    LET ps == reset_processes(s.processes)
    IN [ Enter(s, "fcfs", ps) EXCEPT
           !.procs = Sorted([ k \in 1 .. Len(ps) |-> fcfs_key(ps[k]) ]),
           !.time = 0 ]

fcfs_has_next(s) == s.cursor < Len(s.procs)

\* Mutant of fcfs_body: the clock jumps to the arrival, but no idle block is
\* appended.
fcfs_body_no_idle_block(s) ==
    LET p == s.procs[s.cursor + 1]
        rec == s.processes[p]
        t0 == IF s.time < rec.arrival_time THEN rec.arrival_time ELSE s.time
        t1 == t0 + rec.burst_time
    IN [ s EXCEPT !.processes[p].start_time = Some(t0),
                  !.processes[p].completion_time = Some(t1),
                  !.time = t1,
                  !.schedule = Append(s.schedule, << t0, t1, rec.pid >>),
                  !.cursor = s.cursor + 1 ]

\* One pass through the for loop's body.
fcfs_body(s) ==
    LET p == s.procs[s.cursor + 1]
        rec == s.processes[p]
        idle == s.time < rec.arrival_time
        sched0 == IF idle THEN Append(s.schedule, << s.time, rec.arrival_time, Idle >>)
                  ELSE s.schedule
        t0 == IF idle THEN rec.arrival_time ELSE s.time
        t1 == t0 + rec.burst_time
    IN [ s EXCEPT !.processes[p].start_time = Some(t0),
                  !.processes[p].completion_time = Some(t1),
                  !.time = t1,
                  !.schedule = Append(sched0, << t0, t1, rec.pid >>),
                  !.cursor = s.cursor + 1 ]

\* What fcfs, in its loop, does next.
fcfs_step(s) == IF fcfs_has_next(s) THEN fcfs_body(s) ELSE Return(s)

FcfsCall == pc # "loop" /\ Apply(fcfs_enter(State))

FcfsStep == pc = "loop" /\ alg = "fcfs" /\ fcfs_has_next(State) /\ Apply(fcfs_step(State))

FcfsReturn == pc = "loop" /\ alg = "fcfs" /\ ~fcfs_has_next(State) /\ Apply(fcfs_step(State))

\* ------------------------------------------------------ sjf_non_preemptive

\* min(ready, key=...): the first element of the list no other is less than.
\* keys[a] is the key of processes[a].
MinBy(S, keys) ==
    CHOOSE a \in S :
        \A b \in S : ~KeyLess(keys[b], keys[a]) /\ (~KeyLess(keys[a], keys[b]) => a <= b)

\* min(p.arrival_time for p in remaining) if remaining else 0
first_arrival(ps) ==
    IF Len(ps) = 0 THEN 0
    ELSE CHOOSE t \in { ps[k].arrival_time : k \in 1 .. Len(ps) } :
           \A k \in 1 .. Len(ps) : t <= ps[k].arrival_time

\* Mutant of ready: a process arriving exactly at the clock value is not ready.
ready_strictly_before(s) ==
    { k \in 1 .. Len(s.processes) :
        s.processes[k].completion_time = None /\ s.processes[k].arrival_time < s.time }

\* [p for p in remaining if p.completion_time is None and p.arrival_time <= time]
ready(s) ==
    { k \in 1 .. Len(s.processes) :
        s.processes[k].completion_time = None /\ s.processes[k].arrival_time <= s.time }

\* [p.arrival_time for p in remaining if p.completion_time is None]
next_arrivals(s) ==
    { s.processes[k].arrival_time :
        k \in { j \in 1 .. Len(s.processes) : s.processes[j].completion_time = None } }

\* No process is ready: jump to the next arrival.
idle_jump(s) ==
    LET next_time == CHOOSE t \in next_arrivals(s) : \A u \in next_arrivals(s) : t <= u
    IN [ s EXCEPT !.schedule = Append(s.schedule, << s.time, next_time, Idle >>),
                  !.time = next_time ]

\* Mutant of run_to_completion: completion_time is written before the clock
\* is advanced.
run_to_completion_early(s, p) ==
    LET t1 == s.time + s.processes[p].burst_time
    IN [ s EXCEPT !.processes[p].start_time = Some(s.time),
                  !.processes[p].completion_time = Some(s.time),
                  !.time = t1,
                  !.schedule = Append(s.schedule, << s.time, t1, s.processes[p].pid >>),
                  !.completed = s.completed + 1 ]

\* The chosen process p runs to its end.
run_to_completion(s, p) ==
    LET t1 == s.time + s.processes[p].burst_time
    IN [ s EXCEPT !.processes[p].start_time = Some(s.time),
                  !.processes[p].completion_time = Some(t1),
                  !.time = t1,
                  !.schedule = Append(s.schedule, << s.time, t1, s.processes[p].pid >>),
                  !.completed = s.completed + 1 ]

\* Mutant of sjf_key: no pid, so that min() settles a tie by list position.
sjf_key_without_pid(p) == << p.burst_time, p.arrival_time, << >> >>

\* Mutant of sjf_key: the arrival time comes before the burst time.
sjf_key_arrival_first(p) == << p.arrival_time, p.burst_time, p.pid >>

\* key=lambda x: (x.burst_time, x.arrival_time, x.pid)
sjf_key(p) == << p.burst_time, p.arrival_time, p.pid >>

sjf_enter(s) ==
    LET ps == reset_processes(s.processes)
    IN [ Enter(s, "sjf_non_preemptive", ps) EXCEPT !.time = first_arrival(ps),
                                                   !.completed = 0 ]

\* while completed < n, and neither break taken
sjf_in_loop(s) ==
    /\ s.completed < Len(s.processes)
    /\ ~(ready(s) = {} /\ next_arrivals(s) = {})

sjf_select(s) ==
    MinBy(ready(s), [ k \in 1 .. Len(s.processes) |-> sjf_key(s.processes[k]) ])

sjf_dispatch(s) == run_to_completion(s, sjf_select(s))

\* What sjf_non_preemptive, in its loop, does next.
sjf_step(s) ==
    IF ~sjf_in_loop(s) THEN Return(s)
    ELSE IF ready(s) = {} THEN idle_jump(s)
    ELSE sjf_dispatch(s)

SjfCall == pc # "loop" /\ Apply(sjf_enter(State))

SjfIdle ==
    /\ pc = "loop" /\ alg = "sjf_non_preemptive"
    /\ sjf_in_loop(State) /\ ready(State) = {}
    /\ Apply(sjf_step(State))

SjfDispatch ==
    /\ pc = "loop" /\ alg = "sjf_non_preemptive"
    /\ sjf_in_loop(State) /\ ready(State) # {}
    /\ Apply(sjf_step(State))

SjfReturn ==
    /\ pc = "loop" /\ alg = "sjf_non_preemptive"
    /\ ~sjf_in_loop(State)
    /\ Apply(sjf_step(State))

\* ------------------------------------------------- priority_non_preemptive

\* Mutant of priority_key: the larger priority value wins.
priority_key_largest_first(p) == << 0 - p.priority, p.arrival_time, p.pid >>

\* key=lambda x: (x.priority, x.arrival_time, x.pid)
priority_key(p) == << p.priority, p.arrival_time, p.pid >>

priority_enter(s) ==
    LET ps == reset_processes(s.processes)
    IN [ Enter(s, "priority_non_preemptive", ps) EXCEPT !.time = first_arrival(ps),
                                                        !.completed = 0 ]

priority_in_loop(s) ==
    /\ s.completed < Len(s.processes)
    /\ ~(ready(s) = {} /\ next_arrivals(s) = {})

priority_select(s) ==
    MinBy(ready(s), [ k \in 1 .. Len(s.processes) |-> priority_key(s.processes[k]) ])

priority_dispatch(s) == run_to_completion(s, priority_select(s))

\* What priority_non_preemptive, in its loop, does next.
priority_step(s) ==
    IF ~priority_in_loop(s) THEN Return(s)
    ELSE IF ready(s) = {} THEN idle_jump(s)
    ELSE priority_dispatch(s)

PriorityCall == pc # "loop" /\ Apply(priority_enter(State))

PriorityIdle ==
    /\ pc = "loop" /\ alg = "priority_non_preemptive"
    /\ priority_in_loop(State) /\ ready(State) = {}
    /\ Apply(priority_step(State))

PriorityDispatch ==
    /\ pc = "loop" /\ alg = "priority_non_preemptive"
    /\ priority_in_loop(State) /\ ready(State) # {}
    /\ Apply(priority_step(State))

PriorityReturn ==
    /\ pc = "loop" /\ alg = "priority_non_preemptive"
    /\ ~priority_in_loop(State)
    /\ Apply(priority_step(State))

\* ------------------------------------------------------------ round_robin

\* Mutant of round_robin_key: ties on arrival_time are broken by pid.
round_robin_key_with_pid(p) == << p.arrival_time, 0, p.pid >>

\* key=lambda p: p.arrival_time, as a 3-tuple
round_robin_key(p) == << p.arrival_time, 0, << >> >>

\* Mutant of round_robin_enter: the reset comes before the check of quantum.
round_robin_enter_resets_first(s, q) ==
    LET ps == reset_processes(s.processes)
        sorted == Sorted([ k \in 1 .. Len(ps) |-> round_robin_key(ps[k]) ])
    IN IF q <= 0
       THEN [ s EXCEPT !.processes = ps, !.alg = "round_robin", !.pc = "raised",
                       !.quantum = q, !.schedule = << >>,
                       !.replay = (s.processes # Fresh(s.processes)) ]
       ELSE [ Enter(s, "round_robin", ps) EXCEPT
                !.quantum = q,
                !.procs = sorted,
                !.time = IF Len(sorted) > 0 THEN ps[sorted[1]].arrival_time ELSE 0 ]

\* if quantum <= 0: raise ValueError, before anything else; otherwise the
\* reset, the sort by arrival_time alone, and the clock at the first arrival.
round_robin_enter(s, q) ==
    IF q <= 0
    THEN [ s EXCEPT !.alg = "round_robin", !.pc = "raised", !.quantum = q,
                    !.schedule = << >>,
                    !.replay = (s.processes # Fresh(s.processes)) ]
    ELSE LET ps == reset_processes(s.processes)
             sorted == Sorted([ k \in 1 .. Len(ps) |-> round_robin_key(ps[k]) ])
         IN [ Enter(s, "round_robin", ps) EXCEPT
                !.quantum = q,
                !.procs = sorted,
                !.time = IF Len(sorted) > 0 THEN ps[sorted[1]].arrival_time ELSE 0,
                !.i = 0,
                !.ready_queue = << >> ]

\* Mutant of admit: an if in place of the while, one arrival at most.
admit_single(s) ==
    IF s.i < Len(s.procs) /\ s.processes[s.procs[s.i + 1]].arrival_time <= s.time
    THEN LET p == s.procs[s.i + 1]
         IN [ s EXCEPT !.ready_queue = Append(s.ready_queue, p),
                       !.processes[p].remaining_time = Some(s.processes[p].burst_time),
                       !.i = s.i + 1 ]
    ELSE s

\* while i < n and procs[i].arrival_time <= time: append, set remaining_time
RECURSIVE admit(_)
admit(s) ==
    IF s.i < Len(s.procs) /\ s.processes[s.procs[s.i + 1]].arrival_time <= s.time
    THEN LET p == s.procs[s.i + 1]
         IN admit([ s EXCEPT !.ready_queue = Append(s.ready_queue, p),
                             !.processes[p].remaining_time = Some(s.processes[p].burst_time),
                             !.i = s.i + 1 ])
    ELSE s

\* while i < n or ready_queue
round_robin_in_loop(s) == s.i < Len(s.procs) \/ s.ready_queue # << >>

\* The queue is empty after the admission: jump to the next arrival.
round_robin_idle(s) ==
    LET next_arrival == s.processes[s.procs[s.i + 1]].arrival_time
    IN IF s.time < next_arrival
       THEN [ s EXCEPT !.schedule = Append(s.schedule, << s.time, next_arrival, Idle >>),
                       !.time = next_arrival ]
       ELSE s

\* Mutant of round_robin_pop: start_time is written at every dispatch.
round_robin_pop_restamps(s) ==
    LET current == Head(s.ready_queue)
    IN [ s EXCEPT !.ready_queue = Tail(s.ready_queue),
                  !.processes[current].start_time = Some(s.time) ]

\* current = ready_queue.pop(0), and its first dispatch recorded
round_robin_pop(s) ==
    LET current == Head(s.ready_queue)
        s1 == [ s EXCEPT !.ready_queue = Tail(s.ready_queue) ]
    IN IF s1.processes[current].start_time = None
       THEN LET s2 == [ s1 EXCEPT !.processes[current].start_time = Some(s1.time) ]
            IN IF s2.processes[current].remaining_time = None
               THEN [ s2 EXCEPT !.processes[current].remaining_time =
                                   Some(s2.processes[current].burst_time) ]
               ELSE s2
       ELSE s1

\* Mutant of run_time: always the whole quantum.
run_time_whole_quantum(q, remaining) == q

\* run_time = min(quantum, current.remaining_time)
run_time(q, remaining) == Min2(q, remaining)

\* Mutant of round_robin_execute: remaining_time is not decremented.
round_robin_execute_no_decrement(s, current) ==
    LET run == Min2(s.quantum, Val(s.processes[current].remaining_time))
    IN [ s EXCEPT !.time = s.time + run,
                  !.schedule = Append(s.schedule,
                                      << s.time, s.time + run, s.processes[current].pid >>) ]

\* current executes for one quantum or until completion
round_robin_execute(s, current) ==
    LET run == run_time(s.quantum, Val(s.processes[current].remaining_time))
        start == s.time
        end == s.time + run
    IN [ s EXCEPT !.time = end,
                  !.processes[current].remaining_time =
                      Some(Val(s.processes[current].remaining_time) - run),
                  !.schedule = Append(s.schedule, << start, end, s.processes[current].pid >>) ]

\* Mutant of round_robin_requeue: an unfinished process goes back to the head
\* of the queue.
round_robin_requeue_at_head(s, current) ==
    IF Val(s.processes[current].remaining_time) > 0
    THEN [ s EXCEPT !.ready_queue = << current >> \o s.ready_queue ]
    ELSE [ s EXCEPT !.processes[current].completion_time = Some(s.time) ]

\* Mutant of round_robin_requeue: a process with one unit left is treated as
\* finished.
round_robin_requeue_off_by_one(s, current) ==
    IF Val(s.processes[current].remaining_time) > 1
    THEN [ s EXCEPT !.ready_queue = Append(s.ready_queue, current) ]
    ELSE [ s EXCEPT !.processes[current].completion_time = Some(s.time) ]

\* back into the queue, or completed
round_robin_requeue(s, current) ==
    IF Val(s.processes[current].remaining_time) > 0
    THEN [ s EXCEPT !.ready_queue = Append(s.ready_queue, current) ]
    ELSE [ s EXCEPT !.processes[current].completion_time = Some(s.time) ]

\* Mutant of round_robin_slice: the current process is put back into the
\* queue before the arrivals of the slice are admitted.
round_robin_slice_requeue_first(s) ==
    LET current == Head(s.ready_queue)
    IN admit(round_robin_requeue(round_robin_execute(round_robin_pop(s), current), current))

\* One pass through the loop body with a process to run: pop, execute, admit
\* the arrivals of the slice, requeue or complete.
round_robin_slice(s) ==
    LET current == Head(s.ready_queue)
    IN round_robin_requeue(admit(round_robin_execute(round_robin_pop(s), current)), current)

\* What round_robin, in its loop, does next: the loop's condition, the
\* admission, then the idle jump, the break or a slice.
round_robin_step(s) ==
    IF ~round_robin_in_loop(s) THEN Return(s)
    ELSE LET a == admit(s)
         IN IF a.ready_queue = << >>
            THEN IF a.i < Len(a.procs) THEN round_robin_idle(a) ELSE Return(a)
            ELSE round_robin_slice(a)

RoundRobinCall ==
    /\ pc # "loop"
    /\ \E q \in 1 .. MaxQuantum : Apply(round_robin_enter(State, q))

RoundRobinReject ==
    /\ pc # "loop"
    /\ \E q \in MinQuantum .. 0 : Apply(round_robin_enter(State, q))

RoundRobinIdle ==
    /\ pc = "loop" /\ alg = "round_robin"
    /\ round_robin_in_loop(State)
    /\ admit(State).ready_queue = << >> /\ admit(State).i < Len(procs)
    /\ Apply(round_robin_step(State))

RoundRobinSlice ==
    /\ pc = "loop" /\ alg = "round_robin"
    /\ round_robin_in_loop(State)
    /\ admit(State).ready_queue # << >>
    /\ Apply(round_robin_step(State))

\* The loop ends: its condition is false, or the break is taken.
RoundRobinReturn ==
    /\ pc = "loop" /\ alg = "round_robin"
    /\ \/ ~round_robin_in_loop(State)
       \/ admit(State).ready_queue = << >> /\ ~(admit(State).i < Len(procs))
    /\ Apply(round_robin_step(State))

\* --------------------------------------------------------------- the spec

Next ==
    \/ AddProcess
    \/ FcfsCall \/ FcfsStep \/ FcfsReturn
    \/ SjfCall \/ SjfIdle \/ SjfDispatch \/ SjfReturn
    \/ PriorityCall \/ PriorityIdle \/ PriorityDispatch \/ PriorityReturn
    \/ RoundRobinCall \/ RoundRobinReject
    \/ RoundRobinIdle \/ RoundRobinSlice \/ RoundRobinReturn

Spec == Init /\ [][Next]_vars

\* ------------------------------------------------------ print_gantt_chart

\* The characters the chart is drawn with: "#", "-" and " ".
Hash == 35
Dash == 45
Space == 32

\* c * n: the character c repeated, the empty string for n <= 0.
Repeat(c, n) == [ j \in 1 .. n |-> c ]

\* f"{n}": the decimal digits of an int.
RECURSIVE str(_)
str(n) ==
    IF n < 0 THEN << Dash >> \o str(0 - n)
    ELSE IF n < 10 THEN << 48 + n >>
    ELSE str(n \div 10) \o << 48 + (n % 10) >>

\* "No schedule to show."
NoScheduleLine ==
    << 78, 111, 32, 115, 99, 104, 101, 100, 117, 108, 101, 32, 116, 111,
       32, 115, 104, 111, 119, 46 >>

\* "Gantt Chart (time in units):"
HeaderLine ==
    << 71, 97, 110, 116, 116, 32, 67, 104, 97, 114, 116, 32, 40, 116, 105,
       109, 101, 32, 105, 110, 32, 117, 110, 105, 116, 115, 41, 58 >>

\* The body of the loop over the schedule: the gap before the block, if
\* any, the block's "#" characters, and its label at pid_pos.
gantt_block(acc, b) ==
    LET gap == b[1] > acc.current_time
        idle_length == b[1] - acc.current_time
        timeline0 == IF gap THEN acc.timeline \o Repeat(Dash, idle_length) ELSE acc.timeline
        labels0 == IF gap THEN acc.labels \o Repeat(Space, idle_length) ELSE acc.labels
        current_time == IF gap THEN b[1] ELSE acc.current_time
        length == b[2] - b[1]
        pid_pos == current_time + (length \div 2)
        padded == labels0 \o Repeat(Space, pid_pos - Len(labels0))
    IN [ timeline |-> timeline0 \o Repeat(Hash, length),
         labels |-> IF pid_pos + Len(b[3]) <= Len(padded)
                    THEN SubSeq(padded, 1, pid_pos) \o b[3]
                         \o SubSeq(padded, pid_pos + Len(b[3]) + 1, Len(padded))
                    ELSE padded \o b[3],
         current_time |-> b[2] ]

\* for start, end, pid in schedule: the first k blocks drawn.
RECURSIVE gantt_bars(_, _)
gantt_bars(sched, k) ==
    IF k = 0
    THEN [ timeline |-> << >>, labels |-> << >>, current_time |-> sched[1][1] ]
    ELSE gantt_block(gantt_bars(sched, k - 1), sched[k])

\* The line of times under the chart, after the first k blocks.
RECURSIVE gantt_times(_, _)
gantt_times(sched, k) ==
    IF k = 0 THEN << >>
    ELSE LET before == gantt_times(sched, k - 1)
             first == IF Len(before) = 0 THEN str(sched[k][1]) ELSE before
         IN first \o Repeat(Space, sched[k][2] - sched[k][1] - 1) \o str(sched[k][2])

\* The lines print_gantt_chart prints.
print_gantt_chart(sched) ==
    IF sched = << >>
    THEN << NoScheduleLine >>
    ELSE LET bars == gantt_bars(sched, Len(sched))
         IN << << >>, HeaderLine, bars.timeline, bars.labels,
               gantt_times(sched, Len(sched)), << >> >>

\* print_gantt_chart(schedule), as main calls it on what the function returned.
PrintGanttChart ==
    /\ pc = "returned"
    /\ chart' = print_gantt_chart(schedule)
    /\ pc' = "printed"
    /\ UNCHANGED << processes, alg, quantum, schedule, procs, time, cursor,
                    completed, i, ready_queue, replay, metrics >>

\* -------------------------------------------------------- compute_metrics

\* metrics = compute_metrics(processes), as main calls it after the output.
ComputeMetricsCall ==
    /\ pc = "printed"
    /\ processes' = compute_metrics(processes)
    /\ metrics' = Some(compute_metrics_averages(processes))
    /\ pc' = "reported"
    /\ UNCHANGED << alg, quantum, schedule, procs, time, cursor, completed, i,
                    ready_queue, replay, chart >>

\* The records a caller can hand to compute_metrics: each with or without
\* completion_time, the derived fields unset or left over.
MaxRecords == 2
MaxWait == 1
MaxLeftover == 0

MetricsRecords ==
    { [ Process(<< >>, arrival, burst, 0) EXCEPT
          !.start_time = IF done THEN Some(arrival + wait) ELSE None,
          !.completion_time = IF done THEN Some(arrival + wait + burst) ELSE None,
          !.remaining_time = IF done THEN Some(0) ELSE Some(burst),
          !.turnaround_time = leftover,
          !.waiting_time = leftover ] :
        arrival \in 0 .. MaxArrival, burst \in 1 .. MaxBurst, wait \in 0 .. MaxWait,
        done \in BOOLEAN,
        leftover \in {None} \cup { Some(v) : v \in 0 .. MaxLeftover } }

MetricsInit ==
    /\ \E n \in 0 .. MaxRecords : \E rs \in [ 1 .. n -> MetricsRecords ] :
         processes = [ k \in 1 .. n |-> [ rs[k] EXCEPT !.pid = PidOf(k) ] ]
    /\ alg = "none"
    /\ pc = "printed"
    /\ quantum = 0
    /\ schedule = << >>
    /\ procs = << >>
    /\ time = 0
    /\ cursor = 0
    /\ completed = 0
    /\ i = 0
    /\ ready_queue = << >>
    /\ replay = FALSE
    /\ chart = << >>
    /\ metrics = None

MetricsNext == ComputeMetricsCall

MetricsSpec == MetricsInit /\ [][MetricsNext]_vars

\* ------------------------------------------------------------------ main

\* main: one of the four functions is called, once, on a list that is not
\* empty; round_robin only with a quantum main has found positive.
MainFcfs == pc = "main" /\ processes # << >> /\ FcfsCall

MainSjf == pc = "main" /\ processes # << >> /\ SjfCall

MainPriority == pc = "main" /\ processes # << >> /\ PriorityCall

MainRoundRobin == pc = "main" /\ processes # << >> /\ RoundRobinCall

\* main, from the input of the records to the averages.
MainNext ==
    \/ AddProcess
    \/ MainFcfs \/ FcfsStep \/ FcfsReturn
    \/ MainSjf \/ SjfIdle \/ SjfDispatch \/ SjfReturn
    \/ MainPriority \/ PriorityIdle \/ PriorityDispatch \/ PriorityReturn
    \/ MainRoundRobin \/ RoundRobinIdle \/ RoundRobinSlice \/ RoundRobinReturn
    \/ PrintGanttChart
    \/ ComputeMetricsCall

MainSpec == Init /\ [][MainNext]_vars

\* ------------------------------------------------- the worked example

\* The three records of the worked Round Robin trace, with any priority.
WorkedExample ==
    { << Process(PidOf(1), 0, 4, r1), Process(PidOf(2), 1, 3, r2), Process(PidOf(3), 2, 1, r3) >> :
        r1 \in 0 .. MaxPriority, r2 \in 0 .. MaxPriority, r3 \in 0 .. MaxPriority }

\* main() after input_processes has read the three records, in any order.
TraceInit ==
    /\ \E ps \in WorkedExample :
         \E f \in { g \in [ 1 .. 3 -> 1 .. 3 ] : \A a, b \in 1 .. 3 : g[a] = g[b] => a = b } :
             processes = [ k \in 1 .. 3 |-> ps[f[k]] ]
    /\ alg = "none"
    /\ pc = "main"
    /\ quantum = 0
    /\ schedule = << >>
    /\ procs = << >>
    /\ time = 0
    /\ cursor = 0
    /\ completed = 0
    /\ i = 0
    /\ ready_queue = << >>
    /\ replay = FALSE
    /\ chart = << >>
    /\ metrics = None

\* The calls main() can make on these records; none of them is ever idle.
TraceNext ==
    \/ FcfsCall \/ FcfsStep \/ FcfsReturn
    \/ SjfCall \/ SjfDispatch \/ SjfReturn
    \/ PriorityCall \/ PriorityDispatch \/ PriorityReturn
    \/ RoundRobinCall \/ RoundRobinReject
    \/ RoundRobinSlice \/ RoundRobinReturn

TraceSpec == TraceInit /\ [][TraceNext]_vars

\* A call of the function `name` (with `q`, for round_robin) on the state s.
enter(s, name, q) ==
    CASE name = "fcfs" -> fcfs_enter(s)
      [] name = "sjf_non_preemptive" -> sjf_enter(s)
      [] name = "priority_non_preemptive" -> priority_enter(s)
      [] name = "round_robin" -> round_robin_enter(s, q)

\* The next state of the function that is running in s.
step(s) ==
    CASE s.alg = "fcfs" -> fcfs_step(s)
      [] s.alg = "sjf_non_preemptive" -> sjf_step(s)
      [] s.alg = "priority_non_preemptive" -> priority_step(s)
      [] s.alg = "round_robin" -> round_robin_step(s)

\* The state in which the function that is running in s returns or raises.
RECURSIVE run(_)
run(s) == IF s.pc # "loop" THEN s ELSE run(step(s))



\* ------------------------------------------------------------- the claims

N == Len(processes)
Returned == pc = "returned"
NonPreemptive == { "fcfs", "sjf_non_preemptive", "priority_non_preemptive" }
IsIdle(b) == b[3] = Idle

\* The positions of the blocks of the process `p` in the schedule.
BlocksOf(p) == { k \in 1 .. Len(schedule) : schedule[k][3] = processes[p].pid }

\* C1: the timeline a function returns has end > start in every block, and
\* every block starts where the block before it ends.
C1_TimelineContiguous ==
    Returned =>
        \A k \in 1 .. Len(schedule) :
            /\ schedule[k][2] > schedule[k][1]
            /\ k > 1 => schedule[k][1] = schedule[k - 1][2]

\* A returned Round Robin timeline with an idle block inside it and a
\* process that ran in more than one slice.
C1_Witness ==
    /\ Returned /\ alg = "round_robin"
    /\ \E k \in 2 .. Len(schedule) : IsIdle(schedule[k])
    /\ \E p \in 1 .. N : Cardinality(BlocksOf(p)) > 1

\* C2: when a function has returned, every record has completion_time >=
\* start_time >= arrival_time, turnaround_time = completion_time -
\* arrival_time, waiting_time = turnaround_time - burst_time, waiting_time >= 0.
C2_RecordInvariants ==
    Returned =>
        \A p \in 1 .. N :
            LET r == processes[p]
            IN /\ r.start_time # None /\ r.completion_time # None
               /\ r.turnaround_time # None /\ r.waiting_time # None
               /\ Val(r.completion_time) >= Val(r.start_time)
               /\ Val(r.start_time) >= r.arrival_time
               /\ Val(r.turnaround_time) = Val(r.completion_time) - r.arrival_time
               /\ Val(r.waiting_time) = Val(r.turnaround_time) - r.burst_time
               /\ Val(r.waiting_time) >= 0

\* A returned run in which a process that arrived after time 0 had to wait.
C2_Witness ==
    /\ Returned
    /\ \E p \in 1 .. N :
         /\ processes[p].arrival_time > 0
         /\ processes[p].waiting_time # None
         /\ Val(processes[p].waiting_time) > 0
         /\ Val(processes[p].start_time) > processes[p].arrival_time

\* No clock passes the last arrival plus the sum of the burst times.
Horizon ==
    LET RECURSIVE Sum(_)
        Sum(k) == IF k = 0 THEN 0 ELSE processes[k].burst_time + Sum(k - 1)
    IN MaxArrival + Sum(N)

\* C3: every run terminates, and when it has returned every record has
\* completion_time set.  Termination is stated by its variant: the next step
\* of a function in its loop either returns or moves the clock forward, and
\* the clock never passes the last arrival plus the sum of the burst times;
\* so the loop is left after finitely many passes.
C3_Terminates ==
    /\ pc = "loop" =>
         /\ time <= Horizon
         /\ \/ step(State).pc = "returned"
            \/ step(State).pc = "loop" /\ step(State).time > time
    /\ Returned => \A p \in 1 .. N : processes[p].completion_time # None

\* A returned Round Robin run of three processes, one of which was
\* preempted and one of which arrived while the CPU was idle.
C3_Witness ==
    /\ Returned /\ alg = "round_robin" /\ N = 3
    /\ \E k \in 1 .. Len(schedule) : IsIdle(schedule[k])
    /\ \E p \in 1 .. N : Cardinality(BlocksOf(p)) > 1
    /\ \A p \in 1 .. N : processes[p].completion_time # None

\* C4: round_robin called with quantum <= 0 raises, returns no timeline and
\* leaves every field of every record as it was before the call.
C4_RejectLeavesRecords ==
    [][ (alg' = "round_robin" /\ quantum' <= 0) =>
            (pc' = "raised" /\ schedule' = << >> /\ processes' = processes) ]_vars

\* A rejected call on records that still hold what an earlier Round Robin
\* run left in them.
C4_Witness ==
    /\ pc = "raised" /\ quantum <= 0 /\ N >= 2
    /\ \A p \in 1 .. N :
         /\ processes[p].start_time # None
         /\ processes[p].completion_time # None
         /\ processes[p].waiting_time # None
         /\ processes[p].turnaround_time # None
         /\ processes[p].remaining_time = Some(0)

\* C5: a function that has returned, whatever the records held when it was
\* called, returned the timeline and left the runtime fields that the same
\* function (with the same quantum) returns and leaves on freshly created
\* records with the same static fields.
C5_ReplayIndependent ==
    Returned =>
        LET fresh == run(enter([ State EXCEPT !.processes = Fresh(processes) ], alg, quantum))
        IN /\ fresh.pc = "returned"
           /\ schedule = fresh.schedule
           /\ processes = fresh.processes

\* A function has returned from a call on records that an earlier call had
\* already mutated.
C5_Witness ==
    /\ Returned /\ replay /\ N >= 2
    /\ \E p \in 1 .. N : Cardinality(BlocksOf(p)) > 1

\* p comes before q in the order (arrival_time, pid).
FcfsBefore(p, q) ==
    \/ processes[p].arrival_time < processes[q].arrival_time
    \/ /\ processes[p].arrival_time = processes[q].arrival_time
       /\ StrLess(processes[p].pid, processes[q].pid)

\* C6: fcfs runs the processes in ascending (arrival_time, pid) order,
\* whatever the order of the list: p before q in that order starts first.
C6_FcfsOrder ==
    (Returned /\ alg = "fcfs") =>
        \A p, q \in 1 .. N :
            FcfsBefore(p, q) => Val(processes[p].start_time) < Val(processes[q].start_time)

\* fcfs has returned on a list in which two processes arrive together and
\* the one with the smaller pid comes later in the list, and started first.
C6_Witness ==
    /\ Returned /\ alg = "fcfs"
    /\ \E p, q \in 1 .. N :
         /\ p < q
         /\ processes[p].arrival_time = processes[q].arrival_time
         /\ StrLess(processes[q].pid, processes[p].pid)
         /\ Val(processes[q].start_time) < Val(processes[p].start_time)

\* The process p is not completed and has arrived by the clock value.
ReadyNow(p) ==
    processes[p].completion_time = None /\ processes[p].arrival_time <= time

\* The step dispatches the process d at the clock value: d was ready, and
\* the step sets its start_time to the clock and completes it.
Dispatches(d) ==
    /\ ReadyNow(d)
    /\ processes'[d].start_time = Some(time)
    /\ processes'[d].completion_time # None

\* C7: at every dispatch of sjf_non_preemptive the process dispatched is the
\* one with the least (burst_time, arrival_time, pid) among the processes
\* that are not completed and have arrived by the clock value.
C7_SjfSelectsMinimum ==
    [][ (pc = "loop" /\ alg = "sjf_non_preemptive" /\ completed' = completed + 1) =>
            \E d \in 1 .. N :
                /\ Dispatches(d)
                /\ \A r \in 1 .. N :
                     (r # d /\ ReadyNow(r)) =>
                         KeyLess(<< processes[d].burst_time, processes[d].arrival_time,
                                    processes[d].pid >>,
                                 << processes[r].burst_time, processes[r].arrival_time,
                                    processes[r].pid >>) ]_vars

\* sjf_non_preemptive has dispatched d while r, which arrived earlier and
\* needs longer, was ready and is still waiting.
C7_Witness ==
    /\ pc = "loop" /\ alg = "sjf_non_preemptive"
    /\ \E d, r \in 1 .. N :
         /\ processes[d].completion_time # None
         /\ processes[r].completion_time = None
         /\ processes[r].arrival_time < processes[d].arrival_time
         /\ processes[r].arrival_time <= Val(processes[d].start_time)
         /\ processes[d].burst_time < processes[r].burst_time

\* C8: at every dispatch of priority_non_preemptive the process dispatched
\* is the one with the least (priority, arrival_time, pid) among the
\* processes that are not completed and have arrived by the clock value: the
\* lower priority value wins.
C8_PrioritySelectsMinimum ==
    [][ (pc = "loop" /\ alg = "priority_non_preemptive" /\ completed' = completed + 1) =>
            \E d \in 1 .. N :
                /\ Dispatches(d)
                /\ \A r \in 1 .. N :
                     (r # d /\ ReadyNow(r)) =>
                         KeyLess(<< processes[d].priority, processes[d].arrival_time,
                                    processes[d].pid >>,
                                 << processes[r].priority, processes[r].arrival_time,
                                    processes[r].pid >>) ]_vars

\* priority_non_preemptive has dispatched d, of the lower priority value,
\* while r, which arrived earlier and needs less time, was ready and is
\* still waiting.
C8_Witness ==
    /\ pc = "loop" /\ alg = "priority_non_preemptive"
    /\ \E d, r \in 1 .. N :
         /\ processes[d].completion_time # None
         /\ processes[r].completion_time = None
         /\ processes[r].arrival_time < processes[d].arrival_time
         /\ processes[r].arrival_time <= Val(processes[d].start_time)
         /\ processes[r].burst_time < processes[d].burst_time
         /\ processes[d].priority < processes[r].priority

\* C9: in the timeline fcfs, sjf_non_preemptive and priority_non_preemptive
\* return, every process has exactly one block, the block is
\* (start_time, completion_time, pid), and completion_time = start_time +
\* burst_time.
C9_NonPreemption ==
    (Returned /\ alg \in NonPreemptive) =>
        \A p \in 1 .. N :
            /\ Cardinality(BlocksOf(p)) = 1
            /\ \A k \in BlocksOf(p) :
                 schedule[k] = << Val(processes[p].start_time),
                                  Val(processes[p].completion_time), processes[p].pid >>
            /\ Val(processes[p].completion_time) =
                 Val(processes[p].start_time) + processes[p].burst_time

\* sjf_non_preemptive has returned, and a process q with a shorter burst and
\* a more urgent priority arrived strictly inside the block of p.
C9_Witness ==
    /\ Returned /\ alg = "sjf_non_preemptive"
    /\ \E p, q \in 1 .. N :
         /\ processes[q].burst_time < processes[p].burst_time
         /\ processes[q].priority < processes[p].priority
         /\ Val(processes[p].start_time) < processes[q].arrival_time
         /\ processes[q].arrival_time < Val(processes[p].completion_time)
         /\ Val(processes[q].start_time) >= Val(processes[p].completion_time)

\* The lengths of the blocks of the process p, in the order of the timeline.
SliceLengths(p) ==
    LET blocks == SelectSeq(schedule, LAMBDA b : b[3] = processes[p].pid)
    IN [ k \in 1 .. Len(blocks) |-> blocks[k][2] - blocks[k][1] ]

RECURSIVE SumSeq(_)
SumSeq(s) == IF s = << >> THEN 0 ELSE Head(s) + SumSeq(Tail(s))

\* C10: every slice round_robin gives a process has the length
\* min(quantum, remaining_time of the process at the dispatch); in the
\* timeline it returns every slice is at most the quantum, every slice of a
\* process but its last is the quantum, and the slices of a process sum to
\* its burst_time.
C10_SliceLengths ==
    /\ [](Returned /\ alg = "round_robin" =>
            \A p \in 1 .. N :
                LET lens == SliceLengths(p)
                IN /\ Len(lens) >= 1
                   /\ \A k \in 1 .. Len(lens) :
                        /\ lens[k] <= quantum
                        /\ k < Len(lens) => lens[k] = quantum
                   /\ SumSeq(lens) = processes[p].burst_time)
    /\ [][ (pc = "loop" /\ alg = "round_robin" /\ Len(schedule') = Len(schedule) + 1
              /\ ~IsIdle(schedule'[Len(schedule')])) =>
             \E c \in 1 .. N :
                 LET b == schedule'[Len(schedule')]
                 IN /\ b[3] = processes[c].pid
                    /\ b[2] - b[1] = Min2(quantum, Val(processes[c].remaining_time)) ]_vars

\* round_robin has returned with quantum 2, and a process of burst 3 ran in
\* a slice of 2 and a last slice of 1.
C10_Witness ==
    /\ Returned /\ alg = "round_robin" /\ quantum = 2
    /\ \E p \in 1 .. N :
         /\ processes[p].burst_time = 3
         /\ SliceLengths(p) = << 2, 1 >>

\* The step is a slice of round_robin: it appends a block that is not idle.
SliceStep ==
    /\ pc = "loop" /\ alg = "round_robin"
    /\ Len(schedule') = Len(schedule) + 1
    /\ ~IsIdle(schedule'[Len(schedule')])

\* The process the last block of the primed schedule belongs to.
SliceOf(c) == schedule'[Len(schedule')][3] = processes[c].pid

\* The processes admitted so far.
Admitted == { procs[k] : k \in 1 .. i }

\* C11: when a slice of P ends at t with P unfinished, every process not yet
\* admitted with arrival_time <= t (t itself included) is in the ready queue
\* ahead of P, which is at its tail; and in the timeline round_robin returns
\* every such process has its first block before the next block of P.
C11_ArrivalsAheadOfPreempted ==
    /\ [][ SliceStep =>
             \A c \in 1 .. N :
                 (SliceOf(c) /\ Val(processes'[c].remaining_time) > 0) =>
                     /\ ready_queue' # << >>
                     /\ ready_queue'[Len(ready_queue')] = c
                     /\ \A r \in 1 .. N :
                          (r # c /\ r \notin Admitted /\ processes[r].arrival_time <= time') =>
                              \E j \in 1 .. Len(ready_queue') - 1 : ready_queue'[j] = r ]_vars
    /\ [](Returned /\ alg = "round_robin" =>
            \A c, r \in 1 .. N :
                \A k1, k2 \in BlocksOf(c) :
                    (/\ k1 < k2
                     /\ r # c
                     /\ processes[r].arrival_time <= schedule[k1][2]
                     /\ Val(processes[r].start_time) >= schedule[k1][2]) =>
                        Val(processes[r].start_time) < schedule[k2][1])

\* A slice of c has just ended at the clock value with c unfinished and at
\* the tail of the queue, and r, which arrives exactly at the clock value and
\* has not run yet, is in the queue ahead of it.
C11_Witness ==
    /\ pc = "loop" /\ alg = "round_robin" /\ Len(ready_queue) >= 2
    /\ LET c == ready_queue[Len(ready_queue)]
       IN /\ processes[c].start_time # None
          /\ Val(processes[c].remaining_time) > 0
          /\ schedule # << >>
          /\ schedule[Len(schedule)] = << time - Min2(quantum, time), time, processes[c].pid >>
          /\ \E j \in 1 .. Len(ready_queue) - 1 :
               /\ processes[ready_queue[j]].arrival_time = time
               /\ processes[ready_queue[j]].start_time = None

\* The step appends an idle block, possibly followed by a process's block.
IdleStep(k) ==
    /\ pc = "loop"
    /\ k = Len(schedule) + 1
    /\ k <= Len(schedule')
    /\ IsIdle(schedule'[k])

\* The processes not yet completed.
Unfinished == { p \in 1 .. N : processes[p].completion_time = None }

\* C15: an idle interval [s, e) is emitted only when no unfinished process
\* has arrival_time <= s, and e is the minimum arrival_time among the
\* unfinished processes; in a returned timeline no process has arrived and is
\* unfinished at any instant inside an idle interval.
C15_WorkConservation ==
    /\ [][ \A k \in 1 .. Len(schedule') :
             IdleStep(k) =>
                 /\ \A p \in Unfinished : processes[p].arrival_time > schedule'[k][1]
                 /\ \E p \in Unfinished : processes[p].arrival_time = schedule'[k][2]
                 /\ \A p \in Unfinished : processes[p].arrival_time >= schedule'[k][2] ]_vars
    /\ [](Returned =>
            \A k \in 1 .. Len(schedule) :
                IsIdle(schedule[k]) =>
                    \A p \in 1 .. N :
                        \/ Val(processes[p].completion_time) <= schedule[k][1]
                        \/ processes[p].arrival_time >= schedule[k][2])

\* A returned timeline with an idle interval between two processes' blocks:
\* one process is complete at its start, another arrives at its end.
C15_Witness ==
    /\ Returned
    /\ \E k \in 2 .. Len(schedule) :
         /\ IsIdle(schedule[k])
         /\ \E p \in 1 .. N : Val(processes[p].completion_time) = schedule[k][1]
         /\ \E p \in 1 .. N : processes[p].arrival_time = schedule[k][2]

\* C16: throughout a round_robin run the remaining_time of every process is
\* its burst_time minus the total length of its slices so far, lies in
\* 0 .. burst_time, is 0 exactly when completion_time is set, and no step of
\* the run increases it.
C16_RemainingTime ==
    /\ []((alg = "round_robin" /\ pc \in {"loop", "returned"}) =>
            \A p \in 1 .. N :
                /\ processes[p].remaining_time # None
                /\ Val(processes[p].remaining_time) =
                       processes[p].burst_time - SumSeq(SliceLengths(p))
                /\ Val(processes[p].remaining_time) >= 0
                /\ Val(processes[p].remaining_time) <= processes[p].burst_time
                /\ (Val(processes[p].remaining_time) = 0 <=>
                       processes[p].completion_time # None))
    /\ [][ (alg = "round_robin" /\ pc = "loop") =>
             \A p \in 1 .. N :
                 Val(processes'[p].remaining_time) <= Val(processes[p].remaining_time) ]_vars

\* In the middle of a round_robin run one process has run part of its burst
\* and waits in the queue, and another has completed.
C16_Witness ==
    /\ alg = "round_robin" /\ pc = "loop"
    /\ \E p \in 1 .. N :
         /\ Val(processes[p].remaining_time) > 0
         /\ Val(processes[p].remaining_time) < processes[p].burst_time
         /\ \E j \in 1 .. Len(ready_queue) : ready_queue[j] = p
    /\ \E p \in 1 .. N :
         /\ processes[p].completion_time # None
         /\ Val(processes[p].remaining_time) = 0

\* p precedes q in admission order: earlier arrival_time, or the same
\* arrival_time and an earlier position in the caller's list.
AdmittedBefore(p, q) ==
    \/ processes[p].arrival_time < processes[q].arrival_time
    \/ (processes[p].arrival_time = processes[q].arrival_time /\ p < q)

\* C17: after round_robin returns, a process that precedes another in
\* admission order (arrival_time, then position in the caller's list, not
\* pid) has the smaller start_time.
C17_FirstDispatchOrder ==
    (Returned /\ alg = "round_robin") =>
        \A p, q \in 1 .. N :
            AdmittedBefore(p, q) =>
                Val(processes[p].start_time) < Val(processes[q].start_time)

\* A returned round_robin run on two processes with the same arrival_time
\* whose order in the list is the reverse of the order of their pids.
C17_Witness ==
    /\ Returned /\ alg = "round_robin"
    /\ \E p, q \in 1 .. N :
         /\ p < q
         /\ processes[p].arrival_time = processes[q].arrival_time
         /\ StrLess(processes[q].pid, processes[p].pid)
         /\ Val(processes[p].start_time) < Val(processes[q].start_time)

\* The first and the last block of the process `p` in the schedule.
FirstBlock(p) == CHOOSE k \in BlocksOf(p) : \A j \in BlocksOf(p) : k <= j
LastBlock(p) == CHOOSE k \in BlocksOf(p) : \A j \in BlocksOf(p) : j <= k

\* C18: after any of the four functions returns, every process has a block,
\* its start_time is the start of its first block and its completion_time
\* the end of its last block; and during a run a start_time that is set is
\* never changed.
C18_TimelineMatchesRecords ==
    /\ [](Returned =>
            \A p \in 1 .. N :
                /\ BlocksOf(p) # {}
                /\ processes[p].start_time = Some(schedule[FirstBlock(p)][1])
                /\ processes[p].completion_time = Some(schedule[LastBlock(p)][2]))
    /\ [][ pc = "loop" =>
             \A p \in 1 .. N :
                 processes[p].start_time # None =>
                     processes'[p].start_time = processes[p].start_time ]_vars

\* A returned round_robin run in which a process has more than one block,
\* with another process's block between them.
C18_Witness ==
    /\ Returned /\ alg = "round_robin"
    /\ \E p \in 1 .. N :
         /\ FirstBlock(p) + 1 < LastBlock(p)
         /\ Val(processes[p].start_time) = schedule[FirstBlock(p)][1]
         /\ Val(processes[p].completion_time) = schedule[LastBlock(p)][2]

\* k1 and k2 are two blocks of p with no block of p between them.
NextSlice(p, k1, k2) ==
    /\ k1 \in BlocksOf(p) /\ k2 \in BlocksOf(p) /\ k1 < k2
    /\ \A k \in BlocksOf(p) : ~(k1 < k /\ k < k2)

\* The blocks of r that start at or after the instant t and lie before block k.
SlicesFrom(r, t, k) == { j \in BlocksOf(r) : j < k /\ schedule[j][1] >= t }

\* C19: in a round_robin run the ready queue never holds a process twice nor
\* a completed process; in the timeline returned, between a process's
\* arrival and its first block, and between one of its blocks and its next,
\* every other process has at most one block, and the process waits at most
\* (n - 1) * quantum.
C19_RoundRobinFairness ==
    /\ (alg = "round_robin" /\ pc = "loop") =>
          /\ \A j1, j2 \in 1 .. Len(ready_queue) :
                 ready_queue[j1] = ready_queue[j2] => j1 = j2
          /\ \A j \in 1 .. Len(ready_queue) :
                 processes[ready_queue[j]].completion_time = None
    /\ (Returned /\ alg = "round_robin") =>
          \A p \in 1 .. N :
              /\ schedule[FirstBlock(p)][1] - processes[p].arrival_time <= (N - 1) * quantum
              /\ \A r \in (1 .. N) \ {p} :
                     Cardinality(SlicesFrom(r, processes[p].arrival_time, FirstBlock(p))) <= 1
              /\ \A k1, k2 \in BlocksOf(p) :
                     NextSlice(p, k1, k2) =>
                         /\ schedule[k2][1] - schedule[k1][2] <= (N - 1) * quantum
                         /\ \A r \in (1 .. N) \ {p} :
                                Cardinality(SlicesFrom(r, schedule[k1][2], k2)) <= 1

\* A returned round_robin run on three processes in which one of them waits
\* the full (n - 1) * quantum between two of its slices, while each of the
\* other two runs once.
C19_Witness ==
    /\ Returned /\ alg = "round_robin" /\ N = 3
    /\ \E p \in 1 .. N : \E k1, k2 \in BlocksOf(p) :
         /\ NextSlice(p, k1, k2)
         /\ schedule[k2][1] - schedule[k1][2] = (N - 1) * quantum
         /\ \A r \in (1 .. N) \ {p} :
                Cardinality(SlicesFrom(r, schedule[k1][2], k2)) = 1

\* The permutations of the positions of the caller's list.
ListOrders == { f \in [ 1 .. N -> 1 .. N ] : \A a, b \in 1 .. N : f[a] = f[b] => a = b }

\* The state in which the function of the current run returns when it is
\* called on the freshly created records listed in the order f.
RunPermuted(f) ==
    run(enter([ State EXCEPT !.processes = [ k \in 1 .. N |-> Fresh(processes)[f[k]] ] ],
              alg, quantum))

\* The static fields of a record.
Static(p) == << p.pid, p.arrival_time, p.burst_time, p.priority >>

\* C20: fcfs, sjf_non_preemptive and priority_non_preemptive return the
\* same timeline and leave the same start_time and completion_time in every
\* process for every permutation of the caller's list; and no step of any of
\* the four functions changes the length or the order of the list or a
\* static field of a record.
C20_InputOrderIndependent ==
    /\ []((Returned /\ alg \in NonPreemptive) =>
            \A f \in ListOrders :
                LET other == RunPermuted(f)
                IN /\ other.pc = "returned"
                   /\ other.schedule = schedule
                   /\ \A k \in 1 .. N :
                        /\ other.processes[k].pid = processes[f[k]].pid
                        /\ other.processes[k].start_time = processes[f[k]].start_time
                        /\ other.processes[k].completion_time = processes[f[k]].completion_time)
    /\ [][ pc' # "main" =>
             /\ Len(processes') = Len(processes)
             /\ \A k \in 1 .. N : Static(processes'[k]) = Static(processes[k]) ]_vars

\* sjf_non_preemptive has returned on a list in which two processes with the
\* same burst_time and arrival_time stand in the reverse of their pid order,
\* and the later one in the list ran first.
C20_Witness ==
    /\ Returned /\ alg = "sjf_non_preemptive"
    /\ \E p, q \in 1 .. N :
         /\ p < q
         /\ processes[p].burst_time = processes[q].burst_time
         /\ processes[p].arrival_time = processes[q].arrival_time
         /\ StrLess(processes[q].pid, processes[p].pid)
         /\ Val(processes[q].start_time) < Val(processes[p].start_time)

\* The position in the caller's list of the record with the pid "P<k>".
Ref(k) == CHOOSE p \in 1 .. N : processes[p].pid = PidOf(k)

\* C12: on P1(arrival 0, burst 4), P2(1, 3), P3(2, 1) with quantum 2, the
\* ready queue after the first slice is P2, P3, P1 with 2 remaining for P1,
\* and round_robin returns the timeline (0,2,P1), (2,4,P2), (4,5,P3),
\* (5,7,P1), (7,8,P2) with the completion times P1 = 7, P2 = 8, P3 = 5.
C12_WorkedTrace ==
    /\ (alg = "round_robin" /\ quantum = 2 /\ pc = "loop" /\ Len(schedule) = 1) =>
          /\ ready_queue = << Ref(2), Ref(3), Ref(1) >>
          /\ processes[Ref(1)].remaining_time = Some(2)
    /\ (alg = "round_robin" /\ quantum = 2 /\ Returned) =>
          /\ schedule = << << 0, 2, PidOf(1) >>, << 2, 4, PidOf(2) >>, << 4, 5, PidOf(3) >>,
                           << 5, 7, PidOf(1) >>, << 7, 8, PidOf(2) >> >>
          /\ processes[Ref(1)].completion_time = Some(7)
          /\ processes[Ref(2)].completion_time = Some(8)
          /\ processes[Ref(3)].completion_time = Some(5)

\* round_robin with quantum 2 has returned on the three records, listed as
\* in the worked example, after five slices.
C12_Witness ==
    /\ Returned /\ alg = "round_robin" /\ quantum = 2
    /\ N = 3 /\ Ref(1) = 1 /\ Ref(2) = 2 /\ Ref(3) = 3
    /\ processes[1].arrival_time = 0 /\ processes[1].burst_time = 4
    /\ processes[2].arrival_time = 1 /\ processes[2].burst_time = 3
    /\ processes[3].arrival_time = 2 /\ processes[3].burst_time = 1
    /\ Len(schedule) = 5

\* The records with completion_time set.
Completed == { k \in 1 .. N : processes[k].completion_time # None }

\* The sum of f over the set S.
RECURSIVE SumOver(_, _)
SumOver(S, f) ==
    IF S = {} THEN 0
    ELSE LET k == CHOOSE x \in S : TRUE IN f[k] + SumOver(S \ {k}, f)

\* The fraction `avg` is the quotient of `sum` by `count`.
IsQuotient(avg, sum, count) ==
    /\ avg # ZeroDivisionError
    /\ avg[2] > 0
    /\ avg[1] * count = sum * avg[2]

\* C13: a call of compute_metrics writes turnaround_time = completion_time -
\* arrival_time and waiting_time = turnaround_time - burst_time into the
\* records with completion_time set and leaves every other record as it
\* was; the averages it returns are the sums over the completed records
\* divided by the count of all records, and both are 0.0, with no division,
\* when there is no record.
C13_ComputeMetrics ==
    [][ pc' = "reported" =>
          /\ Len(processes') = N
          /\ \A k \in (1 .. N) \ Completed : processes'[k] = processes[k]
          /\ \A k \in Completed :
               processes'[k] =
                   [ processes[k] EXCEPT
                       !.turnaround_time =
                           Some(Val(processes[k].completion_time) - processes[k].arrival_time),
                       !.waiting_time =
                           Some(Val(processes[k].completion_time) - processes[k].arrival_time
                                - processes[k].burst_time) ]
          /\ metrics' # None
          /\ LET m == Val(metrics')
                 waits == [ k \in 1 .. N |-> Val(processes'[k].waiting_time) ]
                 tats == [ k \in 1 .. N |-> Val(processes'[k].turnaround_time) ]
             IN IF N = 0
                THEN m.avg_waiting_time = ZeroFloat /\ m.avg_turnaround_time = ZeroFloat
                ELSE /\ IsQuotient(m.avg_waiting_time, SumOver(Completed, waits), N)
                     /\ IsQuotient(m.avg_turnaround_time, SumOver(Completed, tats), N) ]_vars

\* compute_metrics has returned from a call on two records of which it
\* skipped one, which keeps its left-over derived fields, and the averages
\* are not zero.
C13_Witness ==
    /\ pc = "reported" /\ N = 2
    /\ Cardinality(Completed) = 1
    /\ \E k \in (1 .. N) \ Completed :
         processes[k].turnaround_time = Some(MaxLeftover)
    /\ \E k \in Completed :
         /\ Val(processes[k].waiting_time) > 0
         /\ Val(metrics).avg_waiting_time = TrueDiv(Val(processes[k].waiting_time), 2)
         /\ Val(metrics).avg_turnaround_time = TrueDiv(Val(processes[k].turnaround_time), 2)

\* The columns of the bar line that block k of the schedule covers.
Columns(k) == (schedule[k][1] - schedule[1][1] + 1) .. (schedule[k][2] - schedule[1][1])

\* C14: in the chart print_gantt_chart prints, over every block of the
\* timeline labelled "Idle" the bar line holds no "#" and the label line
\* holds no character of the label.
C14_IdleRenderedAsFiller ==
    (pc = "printed" /\ schedule # << >>) =>
        \A k \in 1 .. Len(schedule) :
            IsIdle(schedule[k]) =>
                /\ \A c \in Columns(k) : chart[3][c] # Hash
                /\ \A c \in 1 .. Len(chart[4]) : chart[4][c] # Idle[1]

\* main has printed the chart of a timeline that holds an idle block: the
\* bar line is "#" over the block's columns and the label line holds the
\* first letter of "Idle".
C14_Witness ==
    /\ pc = "printed"
    /\ \E k \in 1 .. Len(schedule) :
         /\ IsIdle(schedule[k])
         /\ \A c \in Columns(k) : chart[3][c] = Hash
         /\ \E c \in 1 .. Len(chart[4]) : chart[4][c] = Idle[1]

=============================================================================
